---- MODULE Spec2Model ----
(***************************************************************************)
(* PostgresDriver (src/src/driver/PostgresDriver.ts): connection           *)
(* lifecycle (single connection or pool), the tracked collection           *)
(* databaseConnectionPool, and the per-connection transaction flag.        *)
(*                                                                         *)
(* JavaScript runs one callback at a time, so every synchronous stretch of *)
(* a method is one action; a method that awaits is split at the await: the *)
(* call, the collaborator's callback, and the resumption after the await.  *)
(* The collaborators (pg Pool, pg Client, the database) answer             *)
(* nondeterministically with an error or a result. Only the pool that      *)
(* this.pool refers to is followed: a pool that was ended or replaced      *)
(* answers none of the requests still waiting on it, and the callback of   *)
(* pool.end is followed until the next connect().                          *)
(*                                                                         *)
(* The helper methods (update, parametrize, escapeQueryWithParameters,     *)
(* preparePersistentValue, prepareHydratedValue) are functions of their    *)
(* arguments; each has an operator and a specification that evaluates it   *)
(* on arguments drawn from bounded sets.                                   *)
(***************************************************************************)
EXTENDS Integers, Sequences, FiniteSets

\* ------------------------------------------------------------------ bounds
\* Spec: connect() calls, clients handed out by the pool, calls unsettled at one time.
TxConnects == 1
TxRetrievals == 1
TxPending == 1
\* SpecPool.
MaxConnects == 2
MaxRetrievals == 4
MaxPending == 2
\* SpecRace.
RacePending == 2
\* SpecUpdate: keys of an object literal, the startIndex given to parametrize.
MaxKeys == 2
MaxStartIndex == 2
\* The keys and values of the object literals.
Keys == {"id", "title", "text"}
Values == {"v", "w"}
\* SpecEscape: pieces of a statement, items of a sequence-valued parameter.
MaxSql == 3
MaxItems == 2
\* The parameter names; the first is a prefix of the second.
ParameterNames == {"id", "ids"}
\* SpecPrepare: characters of a string, elements of an array, the largest number.
MaxChars == 2
MaxElements == 2
MaxNumber == 1
\* The characters of the strings: a letter and the separator of simple-array.
Chars == {"a", ","}
\* SpecPair: clients handed out by the pool, calls unsettled at one time.
PairRetrievals == 3
PairPending == 1
\* SpecReuse.
ReuseConnects == 1
ReuseRetrievals == 2
ReusePending == 1

VARIABLES
    usePool,                 \* options.usePool is undefined or true
    nConnects,               \* connect() calls so far: names the pools and clients made
    pool,                    \* this.pool: 0 is undefined, g is the Pool made by the g-th connect
    databaseConnection,      \* this.databaseConnection: 0 is undefined, else a record
    databaseConnectionPool,  \* this.databaseConnectionPool: sequence of records
    recs,                    \* the DatabaseConnection objects ever created
    poolSize,                \* the clients this.pool has created (collaborator state)
    idle,                    \* the idle clients of this.pool (collaborator state)
    waiting,                 \* pool.connect requests on this.pool not yet called back
    clientState,             \* the Client of this.databaseConnection
    tokens,                  \* the release functions ever made: token -> handle
    tokUsed,                 \* the release functions invoked at least once
    inflight,                \* statements handed to a client: query calls not yet called
                             \* back, transaction calls up to their resumption
    txOpen,                  \* handles with a transaction open at the database
    ending,                  \* pools whose end() was called and has not called back
    helper,                  \* the call of a helper method under evaluation
    last                     \* the step just taken: method, argument, outcome, calls made

\* The driver's fields and collaborators: all but the helper call.
driver == <<usePool, nConnects, pool, databaseConnection, databaseConnectionPool, recs, poolSize,
            idle, waiting, clientState, tokens, tokUsed, inflight, txOpen, ending, last>>

vars == <<usePool, nConnects, pool, databaseConnection, databaseConnectionPool, recs, poolSize,
          idle, waiting, clientState, tokens, tokUsed, inflight, txOpen, ending, helper, last>>

\* ----------------------------------------------------------------- helpers
\* A physical connection: <<g, k>> is client k of the pool made by the g-th
\* connect, <<g, 0>> the Client made by the g-th connect without pooling.
NoHandle == <<0, 0>>

\* One call the driver makes on a collaborator (pool, client, release function, logger).
Call(fn, h, tok, sql) == [fn |-> fn, h |-> h, tok |-> tok, sql |-> sql]

\* What a step leaves behind for the caller.
Outcome(op, conn, result, calls) ==
    [op |-> op, conn |-> conn, result |-> result, calls |-> calls]

\* No helper method is under evaluation.
NoHelper == [fn |-> "", args |-> <<>>, result |-> <<>>, done |-> FALSE]

\* Array.prototype.indexOf: 0-based position of the first occurrence, or -1.
indexOf(arr, x) ==
    IF \E i \in 1..Len(arr) : arr[i] = x
    THEN (CHOOSE i \in 1..Len(arr) : arr[i] = x /\ \A j \in 1..(i - 1) : arr[j] # x) - 1
    ELSE -1

\* Array.prototype.splice(start, 1): a negative start counts from the end.
splice(arr, start) ==
    LET from == IF start < 0
                THEN (IF Len(arr) + start < 0 THEN 0 ELSE Len(arr) + start)
                ELSE (IF start > Len(arr) THEN Len(arr) ELSE start)
    IN  SubSeq(arr, 1, from) \o SubSeq(arr, from + 2, Len(arr))

\* ------------------------------------------------------------------- Init
\* The driver after its constructor.
constructed ==
    /\ usePool \in BOOLEAN
    /\ nConnects = 0
    /\ pool = 0
    /\ databaseConnection = 0
    /\ databaseConnectionPool = <<>>
    /\ recs = <<>>
    /\ poolSize = 0
    /\ idle = {}
    /\ waiting = 0
    /\ clientState = "none"
    /\ tokens = <<>>
    /\ tokUsed = {}
    /\ inflight = <<>>
    /\ txOpen = {}
    /\ ending = {}
    /\ last = Outcome("new", 0, "ok", <<>>)

Init == constructed /\ helper = NoHelper

\* ---------------------------------------------------------------- connect
\* Line 106: pooling is on when usePool is undefined or true.
\* usePool: a Pool is made and the promise is already resolved.
\* Otherwise: the record is stored at once and the Client starts to open.
\* A pool ended earlier is followed no further once connect() is called again.
connect ==
    /\ nConnects' = nConnects + 1
    /\ IF usePool
       THEN /\ pool' = nConnects + 1
            /\ poolSize' = 0
            /\ idle' = {}
            /\ waiting' = 0
            /\ last' = Outcome("connect", 0, "ok", <<Call("new Pool", <<nConnects + 1, 0>>, 0, "")>>)
            /\ UNCHANGED <<databaseConnection, recs, clientState>>
       ELSE /\ recs' = Append(recs, [id |-> 1, connection |-> <<nConnects + 1, 0>>,
                                     isTransactionActive |-> FALSE, releaseCallback |-> 0])
            /\ databaseConnection' = Len(recs) + 1
            /\ clientState' = "opening"
            /\ last' = Outcome("connect", Len(recs) + 1, "pending",
                               <<Call("new Client", <<nConnects + 1, 0>>, 0, ""),
                                 Call("client.connect", <<nConnects + 1, 0>>, 0, "")>>)
            /\ UNCHANGED <<pool, poolSize, idle, waiting>>
    /\ ending' = {}
    /\ UNCHANGED <<helper, usePool, databaseConnectionPool, tokens, tokUsed, inflight, txOpen>>

\* The callback of connection.connect (line 117): err ? fail(err) : ok().
connectCallback(err) ==
    /\ clientState = "opening"
    /\ clientState' = IF err THEN "failed" ELSE "open"
    /\ last' = Outcome("connectCallback", 0, IF err THEN "ConnectionError" ELSE "ok", <<>>)
    /\ UNCHANGED <<helper, ending, usePool, nConnects, pool, databaseConnection, databaseConnectionPool, recs,
                   poolSize, idle, waiting, tokens, tokUsed, inflight, txOpen>>

\* ------------------------------------------------------------- disconnect
\* A disconnect that looks at the single connection only.
disconnectThrowsSingleOnly == databaseConnection = 0

\* Line 126: neither a single connection nor a pool.
disconnectThrows == databaseConnection = 0 /\ pool = 0

\* A disconnect that ends the pool without releasing what is tracked.
releaseCallbacksSkipped(arr) == <<>>

\* Lines 138-142: forEach over the tracked records, calling each release callback.
releaseCallbacks(arr) ==
    LET held == SelectSeq(arr, LAMBDA r : recs[r].releaseCallback # 0)
    IN  [i \in 1..Len(held) |->
            Call("releaseCallback", tokens[recs[held[i]].releaseCallback],
                 recs[held[i]].releaseCallback, "")]

\* The pool's side of the release functions in T being invoked: the client goes
\* back to the idle clients of its pool. A release function invoked before (stale)
\* either does nothing or hands the client back again, as the pool library decides.
handBack(T, staleToo) ==
    idle \cup {k \in 1..poolSize :
                 \E t \in T : tokens[t] = <<pool, k>> /\ (t \notin tokUsed \/ staleToo)}

\* Lines 125-150. this.databaseConnectionPool is an array and so always truthy:
\* the second branch runs in both modes, and this.pool.end on an undefined pool
\* throws a TypeError inside the promise executor, which rejects the promise.
disconnect ==
    IF disconnectThrows
    THEN /\ last' = Outcome("disconnect", 0, "ConnectionIsNotSetError", <<>>)
         /\ UNCHANGED <<helper, ending, usePool, nConnects, pool, databaseConnection, databaseConnectionPool,
                        recs, poolSize, idle, waiting, clientState, tokens, tokUsed, inflight,
                        txOpen>>
    ELSE LET ended == IF databaseConnection # 0
                      THEN <<Call("client.end", recs[databaseConnection].connection, 0, "")>>
                      ELSE <<>>
             released == releaseCallbacks(databaseConnectionPool)
         IN  /\ databaseConnection' = 0
             /\ clientState' = IF databaseConnection # 0 THEN "ended" ELSE clientState
             /\ tokUsed' = tokUsed \cup {released[i].tok : i \in 1..Len(released)}
             /\ IF pool = 0
                THEN /\ UNCHANGED <<pool, databaseConnectionPool, poolSize, idle, waiting, ending>>
                     /\ last' = Outcome("disconnect", 0, "TypeError", ended \o released)
                ELSE /\ pool' = 0
                     /\ databaseConnectionPool' = <<>>
                     /\ poolSize' = 0
                     /\ idle' = {}
                     /\ waiting' = 0
                     /\ ending' = ending \cup {pool}
                     /\ last' = Outcome("disconnect", 0, "ok",
                                        ended \o released \o <<Call("pool.end", <<pool, 0>>, 0, "")>>)
             /\ UNCHANGED <<helper, usePool, nConnects, recs, tokens, inflight, txOpen>>

\* Line 143: the callback of pool.end, err ? fail(err) : ok(). The promise of the
\* disconnect that ended pool g was resolved by the ok() of line 148 in the same
\* stretch that called pool.end, and a promise settles once.
poolEndCallback(g, err) ==
    /\ g \in ending
    /\ ending' = ending \ {g}
    /\ last' = Outcome("poolEndCallback", 0, "ok",
                       <<IF err THEN Call("fail", <<g, 0>>, 0, "PoolEndError")
                                ELSE Call("ok", <<g, 0>>, 0, "")>>)
    /\ UNCHANGED <<helper, usePool, nConnects, pool, databaseConnection, databaseConnectionPool,
                   recs, poolSize, idle, waiting, clientState, tokens, tokUsed, inflight, txOpen>>

\* ------------------------------------------------ retrieveDatabaseConnection
\* Lines 157-185, up to the pool's callback.
retrieveDatabaseConnection ==
    /\ IF pool # 0
       THEN /\ waiting' = waiting + 1
            /\ last' = Outcome("retrieveDatabaseConnection", 0, "pending",
                               <<Call("pool.connect", <<pool, 0>>, 0, "")>>)
       ELSE /\ waiting' = waiting
            /\ last' = IF databaseConnection # 0
                       THEN Outcome("retrieveDatabaseConnection", databaseConnection, "ok", <<>>)
                       ELSE Outcome("retrieveDatabaseConnection", 0, "ConnectionIsNotSetError", <<>>)
    /\ UNCHANGED <<helper, ending, usePool, nConnects, pool, databaseConnection, databaseConnectionPool, recs,
                   poolSize, idle, clientState, tokens, tokUsed, inflight, txOpen>>

\* A lookup that never finds the handle.
findNothing(h) == 0

\* Line 166: the tracked record whose connection is the handle h, or 0 (undefined).
find(h) ==
    IF \E i \in 1..Len(databaseConnectionPool) : recs[databaseConnectionPool[i]].connection = h
    THEN databaseConnectionPool[
            CHOOSE i \in 1..Len(databaseConnectionPool) :
                /\ recs[databaseConnectionPool[i]].connection = h
                /\ \A j \in 1..(i - 1) : recs[databaseConnectionPool[j]].connection # h]
    ELSE 0

\* Line 169: the id given to a record created by a retrieval.
newId == Len(databaseConnectionPool)

\* The clients the pool can hand out: an idle one, or, with none idle, a new one.
available == IF idle = {} THEN {poolSize + 1} ELSE idle

\* Lines 160-177: the callback of pool.connect, with an error or with the
\* client k and a fresh release function.
poolConnectCallback(err, k) ==
    /\ waiting > 0
    /\ waiting' = waiting - 1
    /\ IF err
       THEN /\ last' = Outcome("poolConnectCallback", 0, "PoolError", <<>>)
            /\ UNCHANGED <<databaseConnectionPool, recs, tokens, poolSize, idle>>
       ELSE /\ k \in available
            /\ poolSize' = IF k > poolSize THEN k ELSE poolSize
            /\ idle' = idle \ {k}
            /\ tokens' = Append(tokens, <<pool, k>>)
            /\ LET dbConnection == find(<<pool, k>>)
               IN  IF dbConnection = 0
                   THEN /\ recs' = Append(recs, [id |-> newId, connection |-> <<pool, k>>,
                                                 isTransactionActive |-> FALSE,
                                                 releaseCallback |-> Len(tokens) + 1])
                        /\ databaseConnectionPool' = Append(databaseConnectionPool, Len(recs) + 1)
                        /\ last' = Outcome("poolConnectCallback", Len(recs) + 1, "ok", <<>>)
                   ELSE /\ recs' = [recs EXCEPT ![dbConnection].releaseCallback = Len(tokens) + 1]
                        /\ UNCHANGED databaseConnectionPool
                        /\ last' = Outcome("poolConnectCallback", dbConnection, "ok", <<>>)
    /\ UNCHANGED <<helper, ending, usePool, nConnects, pool, databaseConnection, clientState, tokUsed,
                   inflight, txOpen>>

\* ------------------------------------------------- releaseDatabaseConnection
\* Line 192: the release callback is invoked when a pool is set and the record has one.
releaseGuard(c) == pool # 0 /\ recs[c].releaseCallback # 0

\* Lines 191-198, for any record c the caller holds.
releaseDatabaseConnection(c) ==
    /\ c \in 1..Len(recs)
    /\ IF releaseGuard(c)
       THEN /\ \E staleToo \in BOOLEAN : idle' = handBack({recs[c].releaseCallback}, staleToo)
            /\ tokUsed' = tokUsed \cup {recs[c].releaseCallback}
            /\ databaseConnectionPool' =
                 splice(databaseConnectionPool, indexOf(databaseConnectionPool, c))
            /\ last' = Outcome("releaseDatabaseConnection", c, "ok",
                               <<Call("releaseCallback", tokens[recs[c].releaseCallback],
                                      recs[c].releaseCallback, "")>>)
       ELSE /\ last' = Outcome("releaseDatabaseConnection", c, "ok", <<>>)
            /\ UNCHANGED <<idle, tokUsed, databaseConnectionPool>>
    /\ UNCHANGED <<helper, ending, usePool, nConnects, pool, databaseConnection, recs, poolSize, waiting,
                   clientState, tokens, inflight, txOpen>>

\* ------------------------------------------------------------ transactions
\* A query that never misses its connection.
queryNeverThrows == FALSE

\* Line 256 (query): the driver has neither a single connection nor a pool.
queryThrows == databaseConnection = 0 /\ pool = 0

\* Lines 261-263 (query): the statement is logged, then handed to the record's client.
queryCalls(c, sql) ==
    <<Call("logger.logQuery", NoHandle, 0, sql),
      Call("connection.query", recs[c].connection, 0, sql)>>

\* A begin that skips its state check.
beginNeverRejected(c) == FALSE

\* A begin that looks at one flag shared by all connections.
beginRejectedByAny(c) == \E r \in 1..Len(recs) : recs[r].isTransactionActive

\* Lines 223, 234, 245: the state checks that reject a call.
beginRejected(c) == recs[c].isTransactionActive
commitRejected(c) == ~recs[c].isTransactionActive
rollbackRejected(c) == ~recs[c].isTransactionActive

\* The common shape of the three methods up to their await: the state check, then
\* query(), which throws without a connection and otherwise issues the statement.
transactionCall(op, c, rejected, error, sql) ==
    /\ c \in 1..Len(recs)
    /\ IF rejected
       THEN /\ last' = Outcome(op, c, error, <<>>)
            /\ UNCHANGED inflight
       ELSE IF queryThrows
       THEN /\ last' = Outcome(op, c, "ConnectionIsNotSetError", <<>>)
            /\ UNCHANGED inflight
       ELSE /\ inflight' = Append(inflight, [op |-> op, conn |-> c, sql |-> sql, phase |-> "sent"])
            /\ last' = Outcome(op, c, "pending", queryCalls(c, sql))
    /\ UNCHANGED <<helper, ending, usePool, nConnects, pool, databaseConnection, databaseConnectionPool, recs,
                   poolSize, idle, waiting, clientState, tokens, tokUsed, txOpen>>

\* Lines 255-263: query() called on the record c by the user of the driver.
query(c, sql) == transactionCall("query", c, FALSE, "", sql)

\* Lines 222-226.
beginTransaction(c) ==
    transactionCall("beginTransaction", c, c \in 1..Len(recs) /\ beginRejected(c),
                    "TransactionAlreadyStartedError", "START TRANSACTION")

\* Lines 233-237.
commitTransaction(c) ==
    transactionCall("commitTransaction", c, c \in 1..Len(recs) /\ commitRejected(c),
                    "TransactionNotStartedError", "COMMIT")

\* Lines 244-248.
rollbackTransaction(c) ==
    transactionCall("rollbackTransaction", c, c \in 1..Len(recs) /\ rollbackRejected(c),
                    "TransactionNotStartedError", "ROLLBACK")

\* The database's side of a statement that succeeded on handle h.
txOpenAfter(h, sql) ==
    IF sql = "START TRANSACTION" THEN txOpen \cup {h}
    ELSE IF sql \in {"COMMIT", "ROLLBACK"} THEN txOpen \ {h}
    ELSE txOpen

\* A callback that fails the promise without logging.
settleUnlogged(sql, err) ==
    IF err THEN <<Call("fail", NoHandle, 0, "QueryError")>>
    ELSE <<Call("ok", NoHandle, 0, "result.rows")>>

\* Lines 264-270: what the callback of connection.query calls, in order, when the
\* client reports the error object QueryError and when it reports a result.
settle(sql, err) ==
    IF err
    THEN <<Call("logger.logFailedQuery", NoHandle, 0, sql),
           Call("logger.logQueryError", NoHandle, 0, "QueryError"),
           Call("fail", NoHandle, 0, "QueryError")>>
    ELSE <<Call("ok", NoHandle, 0, "result.rows")>>

\* Lines 263-271 (query): the client's callback, with an error or a result. The
\* promise of a query() called by the user is settled here; a transaction method
\* that awaits it resumes in a later step.
queryCallback(i, err) ==
    /\ i \in 1..Len(inflight)
    /\ inflight[i].phase = "sent"
    /\ inflight' = IF inflight[i].op = "query"
                   THEN SubSeq(inflight, 1, i - 1) \o SubSeq(inflight, i + 1, Len(inflight))
                   ELSE [inflight EXCEPT ![i].phase = IF err THEN "failed" ELSE "done"]
    /\ txOpen' = IF err THEN txOpen
                 ELSE txOpenAfter(recs[inflight[i].conn].connection, inflight[i].sql)
    /\ last' = Outcome("queryCallback", inflight[i].conn, IF err THEN "QueryError" ELSE "ok",
                       settle(inflight[i].sql, err))
    /\ UNCHANGED <<helper, ending, usePool, nConnects, pool, databaseConnection, databaseConnectionPool, recs,
                   poolSize, idle, waiting, clientState, tokens, tokUsed>>

\* A flag assigned whether or not the statement succeeded.
flagAssignedRegardless(op, failed, old) == (op = "beginTransaction")

\* Lines 226-227, 237-238, 248-249: the flag once the awaited query has settled.
\* A rejected query throws out of the method before the assignment.
flagAfterAwait(op, failed, old) ==
    IF failed THEN old ELSE (op = "beginTransaction")

\* The method resumes after its await.
afterAwait(i) ==
    /\ i \in 1..Len(inflight)
    /\ inflight[i].phase \in {"done", "failed"}
    /\ recs' = [recs EXCEPT ![inflight[i].conn].isTransactionActive =
                    flagAfterAwait(inflight[i].op, inflight[i].phase = "failed", @)]
    /\ inflight' = SubSeq(inflight, 1, i - 1) \o SubSeq(inflight, i + 1, Len(inflight))
    /\ last' = Outcome(inflight[i].op, inflight[i].conn,
                       IF inflight[i].phase = "failed" THEN "QueryError" ELSE "ok", <<>>)
    /\ UNCHANGED <<helper, ending, usePool, nConnects, pool, databaseConnection, databaseConnectionPool,
                   poolSize, idle, waiting, clientState, tokens, tokUsed, txOpen>>

\* ------------------------------------------------------------------- Next
\* Calls not yet settled: pool.connect requests, query calls and transaction calls.
pending == waiting + Len(inflight)

\* The calls and callbacks that manage connections: at most nc connect() calls,
\* nr clients handed out by pools, np calls unsettled at one time.
connections(nc, nr, np) ==
    \/ nConnects < nc /\ connect
    \/ \E err \in BOOLEAN : connectCallback(err)
    \/ disconnect
    \/ (pool # 0 => pending < np /\ Len(tokens) + waiting < nr) /\ retrieveDatabaseConnection
    \/ \E err \in BOOLEAN, k \in 1..nr : poolConnectCallback(err, k)
    \/ \E c \in 1..Len(recs) : releaseDatabaseConnection(c)

\* The transaction calls, their statements' callbacks and their resumptions.
transactions(np) ==
    \/ \E c \in 1..Len(recs) : pending < np /\ beginTransaction(c)
    \/ \E c \in 1..Len(recs) : pending < np /\ commitTransaction(c)
    \/ \E c \in 1..Len(recs) : pending < np /\ rollbackTransaction(c)
    \/ \E i \in 1..np, err \in BOOLEAN : queryCallback(i, err)
    \/ \E i \in 1..np : afterAwait(i)

\* query() called by the user of the driver, and its statement's callback.
queries(np) ==
    \/ \E c \in 1..Len(recs) : pending < np /\ query(c, "SELECT")
    \/ \E i \in 1..np, err \in BOOLEAN : queryCallback(i, err)

\* The callbacks of the pools that were ended.
poolEnds(nc) ==
    \E g \in 1..nc, err \in BOOLEAN : poolEndCallback(g, err)

\* Connection management and the transaction methods on the connections of one connect().
Next == connections(TxConnects, TxRetrievals, TxPending) \/ transactions(TxPending)

Spec == Init /\ [][Next]_vars

\* Connection management alone, followed over more connects and retrievals.
NextPool == connections(MaxConnects, MaxRetrievals, MaxPending)

SpecPool == Init /\ [][NextPool]_vars

\* The whole driver across a release and a second retrieval.
NextReuse == connections(ReuseConnects, ReuseRetrievals, ReusePending) \/ transactions(ReusePending)

SpecReuse == Init /\ [][NextReuse]_vars

\* Connection management and query().
NextQuery == connections(ReuseConnects, ReuseRetrievals, ReusePending) \/ queries(ReusePending)

SpecQuery == Init /\ [][NextQuery]_vars

\* Connection management and the callbacks of the pools that disconnect ended.
NextEnd == connections(ReuseConnects, ReuseRetrievals, ReusePending) \/ poolEnds(ReuseConnects)

SpecEnd == Init /\ [][NextEnd]_vars

\* The transaction methods with two calls unsettled at one time.
NextRace == connections(TxConnects, TxRetrievals, RacePending) \/ transactions(RacePending)

SpecRace == Init /\ [][NextRace]_vars

\* One pool, whose clients stay with the callers that retrieved them.
retrievals(nr, np) ==
    \/ pool = 0 /\ connect
    \/ (pending < np /\ Len(tokens) + waiting < nr) /\ retrieveDatabaseConnection
    \/ \E err \in BOOLEAN, k \in 1..nr : poolConnectCallback(err, k)

\* The transaction methods on the clients of one pool, in pooled mode.
NextPair == retrievals(PairRetrievals, PairPending) \/ transactions(PairPending)

InitPooled == Init /\ usePool

SpecPair == InitPooled /\ [][NextPair]_vars

\* ----------------------------------------------------------- helper methods
\* SQL is a sequence of pieces. A piece of kind "text" is literal text, "param" is
\* the assignment text=$n that parametrize builds, "name" is a named token :text,
\* "placeholder" is $n.
Text(s) == [kind |-> "text", text |-> s, n |-> 0]
Param(column, n) == [kind |-> "param", text |-> column, n |-> n]
Name(s) == [kind |-> "name", text |-> s, n |-> 0]
Placeholder(n) == [kind |-> "placeholder", text |-> "", n |-> n]

\* Array.prototype.join on an array of sequences, with the separator a sequence.
RECURSIVE join(_, _)
join(array, separator) ==
    IF array = <<>> THEN <<>>
    ELSE IF Len(array) = 1 THEN array[1]
    ELSE array[1] \o separator \o join(Tail(array), separator)

\* Lines 427-443: the name in double quotes.
escapeColumnName(columnName) == "\"" \o columnName \o "\""
escapeTableName(tableName) == "\"" \o tableName \o "\""

\* A parametrize that numbers every object from 1.
parametrizeFromOne(objectLiteral, startIndex) ==
    [i \in 1..Len(objectLiteral) |-> Param(escapeColumnName(objectLiteral[i].key), i)]

\* Lines 477-479. An object literal is the sequence of its keys, in the order of
\* Object.keys, each with its value; index counts from 0 in the source.
parametrize(objectLiteral, startIndex) ==
    [i \in 1..Len(objectLiteral) |->
        Param(escapeColumnName(objectLiteral[i].key), startIndex + (i - 1) + 1)]

\* Lines 297-307: the statement and the parameters that update hands to query.
update(tableName, valuesMap, conditions) ==
    LET pieces(array) == [i \in 1..Len(array) |-> <<array[i]>>]
        updateValues == join(pieces(parametrize(valuesMap, 0)), <<Text(", ")>>)
        conditionString ==
            join(pieces(parametrize(conditions, Len(valuesMap))), <<Text(" AND ")>>)
        updateParams == [i \in 1..Len(valuesMap) |-> valuesMap[i].value]
        conditionParams == [i \in 1..Len(conditions) |-> conditions[i].value]
    IN  [query |-> <<Text("UPDATE "), Text(escapeTableName(tableName)), Text(" SET ")>>
                   \o updateValues \o <<Text(" ")>>
                   \o (IF conditionString # <<>>
                       THEN <<Text(" WHERE ")>> \o conditionString ELSE <<>>),
         parameters |-> updateParams \o conditionParams]

\* The object literals of at most n keys.
ObjectLiterals(n) ==
    UNION {{o \in [1..len -> [key : Keys, value : Values]] :
                \A i, j \in 1..len : o[i].key = o[j].key => i = j} : len \in 0..n}

\* The calls of update and parametrize to evaluate.
InitUpdate ==
    /\ constructed
    /\ \/ helper \in [fn : {"update"},
                       args : [tableName : {"post"}, valuesMap : ObjectLiterals(MaxKeys),
                               conditions : ObjectLiterals(MaxKeys)],
                       result : {<<>>}, done : {FALSE}]
       \/ helper \in [fn : {"parametrize"},
                       args : [objectLiteral : ObjectLiterals(MaxKeys),
                               startIndex : 0..MaxStartIndex],
                       result : {<<>>}, done : {FALSE}]

applyUpdate ==
    /\ helper.fn = "update" /\ ~helper.done
    /\ helper' = [helper EXCEPT !.done = TRUE,
                                !.result = update(helper.args.tableName, helper.args.valuesMap,
                                                  helper.args.conditions)]
    /\ UNCHANGED driver

applyParametrize ==
    /\ helper.fn = "parametrize" /\ ~helper.done
    /\ helper' = [helper EXCEPT !.done = TRUE,
                                !.result = parametrize(helper.args.objectLiteral,
                                                       helper.args.startIndex)]
    /\ UNCHANGED driver

NextUpdate == applyUpdate \/ applyParametrize

SpecUpdate == InitUpdate /\ [][NextUpdate]_vars

\* A replacement that gives every value one placeholder.
replacementOfScalar(value, builtLength) == <<Placeholder(builtLength + 1)>>

\* Lines 409-420: the text that replaces one token, builtLength parameters having
\* been pushed before. A value is a scalar (one item) or an Array of items.
replacement(value, builtLength) ==
    IF value.array
    THEN join([i \in 1..Len(value.items) |-> <<Placeholder(builtLength + i)>>], <<Text(", ")>>)
    ELSE <<Placeholder(builtLength + 1)>>

\* Lines 407-420: String.prototype.replace with the global pattern of line 407,
\* from left to right. The pattern (:key\b) matches a token :name exactly when name
\* is a key: the word boundary keeps :id from matching inside :ids.
RECURSIVE replace(_, _, _)
replace(sql, parameters, builtParameters) ==
    IF sql = <<>> THEN [sql |-> <<>>, parameters |-> builtParameters]
    ELSE IF Head(sql).kind = "name" /\ Head(sql).text \in DOMAIN parameters
    THEN LET value == parameters[Head(sql).text]
             rest == replace(Tail(sql), parameters, builtParameters \o value.items)
         IN  [sql |-> replacement(value, Len(builtParameters)) \o rest.sql,
              parameters |-> rest.parameters]
    ELSE LET rest == replace(Tail(sql), parameters, builtParameters)
         IN  [sql |-> <<Head(sql)>> \o rest.sql, parameters |-> rest.parameters]

\* Lines 403-422. given is false when the parameters argument is undefined.
escapeQueryWithParameters(sql, given, parameters) ==
    IF ~given \/ DOMAIN parameters = {}
    THEN [sql |-> sql, parameters |-> <<>>]
    ELSE replace(sql, parameters, <<>>)

\* The values of a parameter: a scalar, or a sequence of at most n items.
ParameterValues(n) ==
    [array : {FALSE}, items : {<<v>> : v \in Values}]
      \cup [array : {TRUE}, items : UNION {[1..len -> Values] : len \in 0..n}]

\* The statements of at most n pieces: text and named tokens.
Statements(n) ==
    UNION {[1..len -> {Text("t")} \cup {Name(name) : name \in ParameterNames}] : len \in 0..n}

\* The calls of escapeQueryWithParameters to evaluate.
InitEscape ==
    /\ constructed
    /\ \E given \in BOOLEAN, keys \in SUBSET ParameterNames :
          /\ ~given => keys = {}
          /\ helper \in [fn : {"escapeQueryWithParameters"},
                          args : [sql : Statements(MaxSql), given : {given},
                                  parameters : [keys -> ParameterValues(MaxItems)]],
                          result : {<<>>}, done : {FALSE}]

applyEscapeQueryWithParameters ==
    /\ helper.fn = "escapeQueryWithParameters" /\ ~helper.done
    /\ helper' = [helper EXCEPT !.done = TRUE,
                                !.result = escapeQueryWithParameters(helper.args.sql,
                                                helper.args.given, helper.args.parameters)]
    /\ UNCHANGED driver

NextEscape == applyEscapeQueryWithParameters

SpecEscape == InitEscape /\ [][NextEscape]_vars

\* A string is the sequence of its characters. The strings of at most n characters.
Strings(n) == UNION {[1..len -> Chars] : len \in 0..n}

\* The text "true", "false", "null" and the decimal digits.
True == <<"t", "r", "u", "e">>
False == <<"f", "a", "l", "s", "e">>
Null == <<"n", "u", "l", "l">>
Digits == <<"0", "1", "2", "3", "4", "5", "6", "7", "8", "9">>

\* JSON values: null, a boolean, a number, a string, an array of those.
JsonValue(type, boolean, number, string, items) ==
    [type |-> type, boolean |-> boolean, number |-> number, string |-> string, items |-> items]
JsonAtoms ==
    {JsonValue("null", FALSE, 0, <<>>, <<>>)}
      \cup {JsonValue("boolean", b, 0, <<>>, <<>>) : b \in BOOLEAN}
      \cup {JsonValue("number", FALSE, n, <<>>, <<>>) : n \in 0..MaxNumber}
      \cup {JsonValue("string", FALSE, 0, str, <<>>) : str \in Strings(MaxChars)}
JsonValues ==
    JsonAtoms \cup {JsonValue("array", FALSE, 0, <<>>, items) :
                      items \in UNION {[1..len -> JsonAtoms] : len \in 0..MaxElements}}

\* JSON.stringify.
RECURSIVE stringify(_)
stringify(value) ==
    CASE value.type = "null" -> Null
      [] value.type = "boolean" -> (IF value.boolean THEN True ELSE False)
      [] value.type = "number" -> <<Digits[value.number + 1]>>
      [] value.type = "string" -> <<"\"">> \o value.string \o <<"\"">>
      [] value.type = "array" ->
            <<"[">> \o join([i \in 1..Len(value.items) |-> stringify(value.items[i])], <<",">>)
                   \o <<"]">>

\* JSON.parse: the value at the start of the text and the text after it.
RECURSIVE parseValue(_)
RECURSIVE parseItems(_, _)
parseValue(text) ==
    LET from(k) == SubSeq(text, k, Len(text))
    IN  CASE text[1] = "n" -> [value |-> JsonValue("null", FALSE, 0, <<>>, <<>>), rest |-> from(5)]
          [] text[1] = "t" -> [value |-> JsonValue("boolean", TRUE, 0, <<>>, <<>>), rest |-> from(5)]
          [] text[1] = "f" -> [value |-> JsonValue("boolean", FALSE, 0, <<>>, <<>>), rest |-> from(6)]
          [] text[1] = "\"" ->
                LET close == CHOOSE j \in 2..Len(text) :
                                 text[j] = "\"" /\ \A k \in 2..(j - 1) : text[k] # "\""
                IN  [value |-> JsonValue("string", FALSE, 0, SubSeq(text, 2, close - 1), <<>>),
                     rest |-> from(close + 1)]
          [] text[1] = "[" ->
                IF text[2] = "]"
                THEN [value |-> JsonValue("array", FALSE, 0, <<>>, <<>>), rest |-> from(3)]
                ELSE parseItems(from(2), <<>>)
          [] OTHER ->
                [value |-> JsonValue("number", FALSE,
                                     (CHOOSE d \in 1..Len(Digits) : Digits[d] = text[1]) - 1,
                                     <<>>, <<>>),
                 rest |-> from(2)]
parseItems(text, items) ==
    LET item == parseValue(text)
    IN  IF item.rest[1] = ","
        THEN parseItems(Tail(item.rest), Append(items, item.value))
        ELSE [value |-> JsonValue("array", FALSE, 0, <<>>, Append(items, item.value)),
              rest |-> Tail(item.rest)]

\* String.prototype.split(","): the pieces between the commas; one piece, the
\* string itself, when it has no comma (the empty string included).
RECURSIVE split(_)
split(string) ==
    IF \E j \in 1..Len(string) : string[j] = ","
    THEN LET comma == CHOOSE j \in 1..Len(string) :
                         string[j] = "," /\ \A k \in 1..(j - 1) : string[k] # ","
         IN  <<SubSeq(string, 1, comma - 1)>> \o split(SubSeq(string, comma + 1, Len(string)))
    ELSE <<string>>

\* Lines 345-364, for the column types boolean, json and simple-array. String(i)
\* of a string i is i.
preparePersistentValue(value, type) ==
    CASE type = "boolean" -> (IF value = TRUE THEN 1 ELSE 0)
      [] type = "json" -> stringify(value)
      [] type = "simple_array" -> join([i \in 1..Len(value) |-> value[i]], <<",">>)

\* Lines 369-397, for the same column types. A number is truthy unless it is 0.
prepareHydratedValue(value, type) ==
    CASE type = "boolean" -> (IF value # 0 THEN TRUE ELSE FALSE)
      [] type = "json" -> parseValue(value).value
      [] type = "simple_array" -> split(value)

\* The sequences of at most n strings.
SimpleArrays(n) == UNION {[1..len -> Strings(MaxChars)] : len \in 0..n}

\* A value of a column type, to be persisted and then hydrated.
toPersist(type, value) ==
    [fn |-> "preparePersistentValue",
     args |-> [type |-> type, value |-> value, persisted |-> <<>>],
     result |-> <<>>, done |-> FALSE]

InitPrepare ==
    /\ constructed
    /\ \/ \E value \in BOOLEAN : helper = toPersist("boolean", value)
       \/ \E value \in JsonValues : helper = toPersist("json", value)
       \/ \E value \in SimpleArrays(MaxElements) : helper = toPersist("simple_array", value)

applyPreparePersistentValue ==
    /\ helper.fn = "preparePersistentValue"
    /\ helper' = [helper EXCEPT !.fn = "prepareHydratedValue",
                                !.args.persisted =
                                    preparePersistentValue(helper.args.value, helper.args.type)]
    /\ UNCHANGED driver

applyPrepareHydratedValue ==
    /\ helper.fn = "prepareHydratedValue" /\ ~helper.done
    /\ helper' = [helper EXCEPT !.done = TRUE,
                                !.result =
                                    prepareHydratedValue(helper.args.persisted, helper.args.type)]
    /\ UNCHANGED driver

NextPrepare == applyPreparePersistentValue \/ applyPrepareHydratedValue

SpecPrepare == InitPrepare /\ [][NextPrepare]_vars

\* ----------------------------------------------------------------- claims
\* The record c is in the tracked collection arr.
tracked(arr, c) == \E i \in 1..Len(arr) : arr[i] = c

\* A step that is the call of a transaction method (not its resumption).
isCall(o, op) == o.op = op /\ o.result \notin {"ok", "QueryError"}

\* C1: beginTransaction on an Active connection is rejected with
\* TransactionAlreadyStartedError, commitTransaction and rollbackTransaction on an
\* Idle connection with TransactionNotStartedError; a rejected call issues no
\* statement and leaves every flag as it was.
C1_RejectedTransactionCalls ==
    [][\A c \in 1..Len(recs) :
        /\ (isCall(last', "beginTransaction") /\ last'.conn = c /\ recs[c].isTransactionActive)
              => /\ last'.result = "TransactionAlreadyStartedError"
                 /\ last'.calls = <<>>
                 /\ UNCHANGED <<recs, inflight, txOpen>>
        /\ (isCall(last', "beginTransaction") /\ last'.conn = c /\ ~recs[c].isTransactionActive)
              => last'.result \in {"pending", "ConnectionIsNotSetError"}
        /\ (\E op \in {"commitTransaction", "rollbackTransaction"} :
                isCall(last', op) /\ last'.conn = c /\ ~recs[c].isTransactionActive)
              => /\ last'.result = "TransactionNotStartedError"
                 /\ last'.calls = <<>>
                 /\ UNCHANGED <<recs, inflight, txOpen>>
        /\ (\E op \in {"commitTransaction", "rollbackTransaction"} :
                isCall(last', op) /\ last'.conn = c /\ recs[c].isTransactionActive)
              => last'.result \in {"pending", "ConnectionIsNotSetError"}
    ]_vars

\* C1 witness: a rollback on an Idle connection was rejected and issued nothing.
C1_Witness ==
    /\ last.op = "rollbackTransaction"
    /\ last.result = "TransactionNotStartedError"
    /\ last.calls = <<>>
    /\ ~recs[last.conn].isTransactionActive

\* C2: isTransactionActive changes only in the resumption of a call whose statement
\* succeeded (to true after START TRANSACTION, to false after COMMIT or ROLLBACK);
\* when the statement failed the resumption leaves the flag and hands the error on.
C2_FlagFollowsStatement ==
    [][/\ \A c \in 1..Len(recs) :
            recs'[c].isTransactionActive # recs[c].isTransactionActive
              => \E i \in 1..Len(inflight) :
                    /\ inflight[i].conn = c
                    /\ inflight[i].phase = "done"
                    /\ (inflight[i].op = "beginTransaction") = recs'[c].isTransactionActive
                    /\ last' = Outcome(inflight[i].op, c, "ok", <<>>)
                    /\ inflight' = SubSeq(inflight, 1, i - 1) \o SubSeq(inflight, i + 1, Len(inflight))
       /\ \A i \in 1..Len(inflight) :
            (/\ inflight[i].phase = "failed"
             /\ inflight' = SubSeq(inflight, 1, i - 1) \o SubSeq(inflight, i + 1, Len(inflight)))
              => /\ recs' = recs
                 /\ last' = Outcome(inflight[i].op, inflight[i].conn, "QueryError", <<>>)
    ]_vars

\* C2 witness: a START TRANSACTION failed and the call ended with the error, the
\* flag still false.
C2_Witness ==
    /\ last.op = "beginTransaction"
    /\ last.result = "QueryError"
    /\ ~recs[last.conn].isTransactionActive

\* C3: in pooled mode the release of a record retrieved from this.pool, its
\* callback not yet invoked, invokes that callback exactly once and removes the
\* record; a release of the same record right after a release of it invokes nothing.
C3_ReleaseInvokesOnce ==
    [][\A c \in 1..Len(recs) :
        (/\ last'.op = "releaseDatabaseConnection"
         /\ last'.conn = c
         /\ pool # 0
         /\ recs[c].releaseCallback # 0
         /\ recs[c].connection[1] = pool)
          => /\ recs[c].releaseCallback \notin tokUsed
                  => /\ Len(last'.calls) = 1
                     /\ last'.calls[1].tok = recs[c].releaseCallback
                     /\ ~tracked(databaseConnectionPool', c)
             /\ (last.op = "releaseDatabaseConnection" /\ last.conn = c)
                  => last'.calls = <<>>
    ]_vars

\* C4: a record that leaves the tracked collection had its own release callback
\* (the one attached at its most recent retrieval) invoked by then.
C4_ReleasedBeforeRemoved ==
    [][\A c \in 1..Len(recs) :
        (tracked(databaseConnectionPool, c) /\ ~tracked(databaseConnectionPool', c))
          => recs[c].releaseCallback \in tokUsed'
    ]_vars

\* C5: the tracked collection holds at most one record per handle, and a retrieval
\* returns the one tracked record of the handle it was handed, carrying the release
\* function of this retrieval.
C5_OneRecordPerHandle ==
    /\ \A i, j \in 1..Len(databaseConnectionPool) :
          recs[databaseConnectionPool[i]].connection = recs[databaseConnectionPool[j]].connection
            => i = j
    /\ (last.op = "poolConnectCallback" /\ last.result = "ok")
          => /\ tracked(databaseConnectionPool, last.conn)
             /\ recs[last.conn].connection = tokens[Len(tokens)]
             /\ recs[last.conn].releaseCallback = Len(tokens)

\* C5 witness: a retrieval was handed a handle that was tracked and returned the
\* existing record, not a new one.
C5_Witness ==
    /\ last.op = "poolConnectCallback"
    /\ last.result = "ok"
    /\ last.conn < Len(recs)
    /\ tracked(databaseConnectionPool, last.conn)

\* C6: no two tracked records have the same id.
C6_UniqueIds ==
    \A i, j \in 1..Len(databaseConnectionPool) :
        recs[databaseConnectionPool[i]].id = recs[databaseConnectionPool[j]].id => i = j

\* C7: a disconnect with neither a pool nor a single connection fails with
\* ConnectionIsNotSetError and closes or releases nothing; every disconnect leaves
\* the driver with neither, and only connect gives it one again.
C7_DisconnectWithoutConnection ==
    [][/\ last'.op = "disconnect" => (pool' = 0 /\ databaseConnection' = 0)
       /\ (pool = 0 /\ databaseConnection = 0)
            => /\ last'.op # "connect" => (pool' = 0 /\ databaseConnection' = 0)
               /\ last'.op = "disconnect"
                    => /\ last'.result = "ConnectionIsNotSetError"
                       /\ last'.calls = <<>>
                       /\ UNCHANGED <<databaseConnectionPool, recs, poolSize, idle, waiting,
                                      clientState, tokUsed>>
    ]_vars

\* C7 witness: after a connect and a disconnect, a further disconnect was rejected.
C7_Witness ==
    /\ nConnects > 0
    /\ last.op = "disconnect"
    /\ last.result = "ConnectionIsNotSetError"

\* C8: without pooling, a disconnect after a successful connect ends the single
\* connection, clears it and completes successfully.
C8_SingleDisconnectSucceeds ==
    [][(/\ ~usePool
        /\ databaseConnection # 0
        /\ clientState = "open"
        /\ last'.op = "disconnect")
          => /\ last'.result = "ok"
             /\ databaseConnection' = 0
             /\ \E i \in 1..Len(last'.calls) : last'.calls[i].fn = "client.end"
    ]_vars

\* C9: with a pool, disconnect invokes the release callback of every tracked record,
\* in order, then ends the pool; afterwards nothing is tracked and this.pool is unset.
C9_DisconnectReleasesTracked ==
    [][(pool # 0 /\ last'.op = "disconnect")
          => /\ last'.result = "ok"
             /\ Len(last'.calls) = Len(databaseConnectionPool) + 1
             /\ \A i \in 1..Len(databaseConnectionPool) :
                   /\ last'.calls[i].fn = "releaseCallback"
                   /\ last'.calls[i].tok = recs[databaseConnectionPool[i]].releaseCallback
                   /\ last'.calls[i].tok \in tokUsed'
             /\ last'.calls[Len(databaseConnectionPool) + 1].fn = "pool.end"
             /\ databaseConnectionPool' = <<>>
             /\ pool' = 0
    ]_vars

\* C9 witness: a disconnect released two tracked records and then ended the pool.
C9_Witness ==
    /\ last.op = "disconnect"
    /\ last.result = "ok"
    /\ Len(last.calls) = 3
    /\ last.calls[1].fn = "releaseCallback"
    /\ last.calls[3].fn = "pool.end"

\* C10: with no statement outstanding, the record a retrieval returns has
\* isTransactionActive true exactly when its handle has a transaction open at the
\* database (a START TRANSACTION succeeded, no COMMIT or ROLLBACK succeeded since).
C10_FlagMatchesHandle ==
    (last.op = "poolConnectCallback" /\ last.result = "ok" /\ inflight = <<>>)
      => (recs[last.conn].isTransactionActive <=> recs[last.conn].connection \in txOpen)

\* The three transaction methods.
TransactionMethods == {"beginTransaction", "commitTransaction", "rollbackTransaction"}

C12_ConnectionIsNotSet ==
    [][/\ (pool = 0 /\ databaseConnection = 0
            /\ last'.op \in {"retrieveDatabaseConnection", "query"})
              => /\ last'.result = "ConnectionIsNotSetError"
                 /\ last'.calls = <<>>
                 /\ UNCHANGED <<inflight, waiting, recs>>
       /\ (~usePool /\ databaseConnection # 0 /\ last'.op = "retrieveDatabaseConnection")
              => /\ last'.result = "ok"
                 /\ last'.conn = databaseConnection
                 /\ UNCHANGED <<databaseConnection, recs>>
       /\ databaseConnection' # databaseConnection => last'.op \in {"connect", "disconnect"}
    ]_vars

\* C12 witness: after a connect and a disconnect, a query on a record obtained
\* earlier failed with ConnectionIsNotSetError.
C12_Witness ==
    /\ last.op = "query"
    /\ last.conn \in 1..Len(recs)
    /\ last.result = "ConnectionIsNotSetError"
    /\ pool = 0 /\ databaseConnection = 0

\* C13: a query that reaches its connection calls logQuery(sql) and then hands the
\* statement to the connection of the record it was given; when the client reports
\* an error the callback calls logFailedQuery(sql), logQueryError(err) and only then
\* fails the promise, with the error the client reported; when the client reports a
\* result the callback calls no logger and resolves the promise with result.rows.
C13_QueryLogging ==
    [][/\ (last'.op = "query" /\ last'.result = "pending")
            => /\ inflight' = Append(inflight, inflight'[Len(inflight')])
               /\ last'.calls =
                     <<Call("logger.logQuery", NoHandle, 0, inflight'[Len(inflight')].sql),
                       Call("connection.query", recs[last'.conn].connection, 0,
                            inflight'[Len(inflight')].sql)>>
       /\ last'.op = "queryCallback"
            => \E i \in 1..Len(inflight) :
                  /\ inflight[i].phase = "sent"
                  /\ inflight[i].conn = last'.conn
                  /\ IF last'.result = "ok"
                     THEN last'.calls = <<Call("ok", NoHandle, 0, "result.rows")>>
                     ELSE /\ Len(last'.calls) = 3
                          /\ last'.calls[1] =
                                Call("logger.logFailedQuery", NoHandle, 0, inflight[i].sql)
                          /\ last'.calls[2] =
                                Call("logger.logQueryError", NoHandle, 0, last'.result)
                          /\ last'.calls[3] = Call("fail", NoHandle, 0, last'.result)
    ]_vars

\* C13 witness: a statement failed; the two logger calls came first and the promise
\* was failed with the reported error.
C13_Witness ==
    /\ last.op = "queryCallback"
    /\ last.result = "QueryError"
    /\ Len(last.calls) = 3
    /\ last.calls[2].fn = "logger.logQueryError"
    /\ last.calls[3] = Call("fail", NoHandle, 0, "QueryError")

\* C14: a disconnect that ends a pool does not report success while the callback
\* of pool.end has yet to run, and when that callback reports an error the promise
\* of the disconnect fails with that error.
C14_PoolEndErrorSurfaced ==
    [][/\ (last'.op = "disconnect" /\ pool # 0)
            => ~(last'.result = "ok" /\ pool \in ending')
       /\ (last'.op = "poolEndCallback" /\ last'.calls[1].fn = "fail")
            => last'.result = last'.calls[1].sql
    ]_vars

\* The pieces of kind "param" in a statement, in order.
params(sql) == SelectSeq(sql, LAMBDA p : p.kind = "param")

\* C15: the statement update builds has the placeholders $1..$n in SET, one per key
\* of the update values in key order, then $(n+1)..$(n+m) in WHERE, one per key of
\* the conditions; its parameters are the update values followed by the condition
\* values; with no conditions it has no WHERE. parametrize(obj, k) gives the i-th
\* key, in double quotes, the placeholder $(k+i).
C15_UpdatePlaceholders ==
    /\ (helper.fn = "update" /\ helper.done)
          => LET valuesMap == helper.args.valuesMap
                 conditions == helper.args.conditions
                 n == Len(valuesMap)
                 m == Len(conditions)
                 statement == helper.result.query
                 where == {j \in 1..Len(statement) : statement[j] = Text(" WHERE ")}
                 set == {j \in 1..Len(statement) : statement[j] = Text(" SET ")}
             IN  /\ Len(params(statement)) = n + m
                 /\ \A i \in 1..(n + m) : params(statement)[i].n = i
                 /\ \A i \in 1..n :
                       /\ params(statement)[i].text = escapeColumnName(valuesMap[i].key)
                       /\ helper.result.parameters[i] = valuesMap[i].value
                 /\ \A i \in 1..m :
                       /\ params(statement)[n + i].text = escapeColumnName(conditions[i].key)
                       /\ helper.result.parameters[n + i] = conditions[i].value
                 /\ Len(helper.result.parameters) = n + m
                 /\ set = {3}
                 /\ Len(params(SubSeq(statement, 1, 3))) = 0
                 /\ IF m = 0
                    THEN where = {}
                    ELSE \E j \in 1..Len(statement) :
                            /\ where = {j}
                            /\ Len(params(SubSeq(statement, 1, j))) = n
    /\ (helper.fn = "parametrize" /\ helper.done)
          => /\ Len(helper.result) = Len(helper.args.objectLiteral)
             /\ \A i \in 1..Len(helper.result) :
                   helper.result[i] = Param("\"" \o helper.args.objectLiteral[i].key \o "\"",
                                            helper.args.startIndex + i)

\* C15 witness: update was given two values and one condition and built a statement
\* with WHERE and three parameters.
C15_Witness ==
    /\ helper.fn = "update" /\ helper.done
    /\ Len(helper.args.valuesMap) = 2
    /\ Len(helper.args.conditions) = 1
    /\ Len(helper.result.parameters) = 3
    /\ \E j \in 1..Len(helper.result.query) : helper.result.query[j] = Text(" WHERE ")

\* The concatenation of a sequence of sequences.
RECURSIVE flatten(_)
flatten(seqs) == IF seqs = <<>> THEN <<>> ELSE Head(seqs) \o flatten(Tail(seqs))

\* C16: escapeQueryWithParameters replaces every named token whose name is a key,
\* each occurrence of it, and nothing else; the placeholders of the result are
\* $1, $2, ... in order, as many as the arguments; the arguments are the values of
\* the replaced tokens in order, one for a scalar and the L items for a sequence of
\* length L; with the map undefined or empty the statement is returned as it was,
\* with no arguments.
C16_EscapedPlaceholders ==
    (helper.fn = "escapeQueryWithParameters" /\ helper.done)
      => LET sql == helper.args.sql
             parameters == helper.args.parameters
             isKey(p) == p.kind = "name" /\ p.text \in DOMAIN parameters
             replaced == SelectSeq(sql, isKey)
             placeholders == SelectSeq(helper.result.sql, LAMBDA p : p.kind = "placeholder")
             joined == SelectSeq(helper.result.sql, LAMBDA p : p = Text(", "))
             others == SelectSeq(helper.result.sql,
                                 LAMBDA p : p.kind # "placeholder" /\ p # Text(", "))
         IN  IF ~helper.args.given \/ DOMAIN parameters = {}
             THEN /\ helper.result.sql = sql
                  /\ helper.result.parameters = <<>>
             ELSE /\ Len(placeholders) = Len(helper.result.parameters)
                  /\ \A i \in 1..Len(placeholders) : placeholders[i].n = i
                  /\ helper.result.parameters =
                        flatten([i \in 1..Len(replaced) |-> parameters[replaced[i].text].items])
                  /\ others = SelectSeq(sql, LAMBDA p : ~isKey(p))
                  /\ Len(placeholders) - Len(joined) =
                        Cardinality({i \in 1..Len(replaced) :
                                        parameters[replaced[i].text].items # <<>>})

\* C16 witness: a token that occurs twice, its value a sequence of two items, was
\* replaced by $1, $2 and $3, $4, with four arguments.
C16_Witness ==
    /\ helper.fn = "escapeQueryWithParameters" /\ helper.done
    /\ helper.args.sql = <<Name("ids"), Text("t"), Name("ids")>>
    /\ DOMAIN helper.args.parameters = {"ids"}
    /\ helper.result.sql = <<Placeholder(1), Text(", "), Placeholder(2), Text("t"),
                             Placeholder(3), Text(", "), Placeholder(4)>>
    /\ Len(helper.result.parameters) = 4

\* C17: a value of column type boolean, json or simple-array that is persisted
\* and then hydrated comes back equal to itself.
C17_HydratePersistRoundTrip ==
    (helper.fn = "prepareHydratedValue" /\ helper.done)
      => helper.result = helper.args.value

\* C18: releaseDatabaseConnection(c) takes c out of the tracked collection and
\* nothing else: the other tracked records stay, in their order, also when c was
\* not tracked.
C18_ReleaseRemovesOnlyItself ==
    [][\A c \in 1..Len(recs) :
        (last'.op = "releaseDatabaseConnection" /\ last'.conn = c)
          => databaseConnectionPool' = SelectSeq(databaseConnectionPool, LAMBDA r : r # c)
    ]_vars

\* C19: a beginTransaction on a connection issues START TRANSACTION only when no
\* START TRANSACTION of an earlier beginTransaction on that connection is
\* outstanding or has opened a transaction that no COMMIT or ROLLBACK has ended.
C19_NoSecondStartTransaction ==
    [][\A c \in 1..Len(recs) :
        (last'.op = "beginTransaction" /\ last'.result = "pending" /\ last'.conn = c)
          => /\ ~\E i \in 1..Len(inflight) :
                    /\ inflight[i].conn = c
                    /\ inflight[i].op = "beginTransaction"
                    /\ inflight[i].phase \in {"sent", "done"}
             /\ recs[c].connection \notin txOpen
    ]_vars

\* C20: after a connect without pooling whose open failed, the driver has no
\* connection, and retrieveDatabaseConnection and query fail with
\* ConnectionIsNotSetError.
C20_FailedOpenLeavesNoConnection ==
    clientState = "failed"
      => /\ databaseConnection = 0
         /\ last.op \in {"retrieveDatabaseConnection", "query"}
               => last.result = "ConnectionIsNotSetError"

====
